---- MODULE Spec2Model ----
(***************************************************************************)
(* Model of src/src/createAnimatedComponent.js: createAnimatedComponent,  *)
(* the AnimatedComponent wrapper class, its lifecycle handlers, the native *)
(* event differ, the props graph binder, the view descriptor publisher,    *)
(* the static prop projector and the process-wide NODE_MAPPING registry.   *)
(***************************************************************************)
EXTENDS Integers, Sequences, FiniteSets

\* ------------------------------------------------------------------ bounds
MaxUpdates == 1       \* componentDidUpdate calls in one behaviour of Spec
MaxEventUpdates == 1  \* componentDidUpdate calls in one behaviour of SpecEvents
MaxBinderUpdates == 3 \* componentDidUpdate calls in one behaviour of SpecBinder
MaxStyleUpdates == 1  \* componentDidUpdate calls in one behaviour of SpecStyles
MaxNodes == 3         \* props graph nodes createOrReusePropsNode may build
MaxTeardowns == 2     \* runs of componentWillUnmount on one instance in SpecTwice
MaxDeferred == 2      \* firings of _animatedPropsCallback an instance defers before it mounts
MaxRenders == 2       \* calls of render in one behaviour of SpecProjector
MaxHandlerUpdates == 2 \* componentDidUpdate calls in one behaviour of SpecHandlers

\* ------------------------------------------------------------- input sets
Instances == {"a", "b"}            \* AnimatedComponent instances
Tags == {"t1", "t2"}               \* native view tags
\* results of findNodeHandle: a tag, or null for a component that renders nothing
TagKeys == Tags \cup {"null"}
EventIDs == {"A", "B"}             \* AnimatedEvent.__nodeID
KeyOrder == <<"onScroll", "onPress">>  \* for..in order of the props keys
Keys == {KeyOrder[n] : n \in 1..Len(KeyOrder)}
NativeProps == {"p1", "p2"}        \* payloads of a native notification
Refs == {"native", "composite"}    \* wrapped component with / without setNativeProps
\* the argument of createAnimatedComponent: a class component, a function with
\* a prototype, an arrow function, or a component that is no function
ComponentKinds == {"class", "function", "arrow", "host"}

StyleNodes == {"S1", "S2"}         \* style objects that expose viewDescriptors
ViewName == "RCTView"              \* hostInstance.viewConfig.uiViewClassName

\* ------------------------------------------------------------ prop values
Absent == [kind |-> "absent", id |-> ""]
Plain == [kind |-> "plain", id |-> ""]
Event(id) == [kind |-> "AnimatedEvent", id |-> id]
HandlerRef == [kind |-> "WorkletEventHandler", id |-> ""]
Values == {Absent, Plain, HandlerRef} \cup {Event(id) : id \in EventIDs}
PropsUniverse == [Keys -> Values]
NoProps == [k \in Keys |-> Absent]
\* the props of the specification that exercises the registry
SmallProps == {NoProps, [NoProps EXCEPT !["onScroll"] = Event("A")]}

\* this.props.style: undefined, a plain style object, a style that exposes
\* viewDescriptors, or an array of these
StyleEntry(kind, node, items) == [kind |-> kind, node |-> node, items |-> items]
NoStyle == StyleEntry("undefined", "", <<>>)
PlainStyle == StyleEntry("plain", "", <<>>)
AnimatedStyle(node) == StyleEntry("animated", node, <<>>)
StyleArray(items) == StyleEntry("array", "", items)
Styles == {NoStyle, PlainStyle, AnimatedStyle("S1"),
           StyleArray(<<PlainStyle, StyleArray(<<NoStyle, AnimatedStyle("S1")>>),
                        AnimatedStyle("S2")>>)}
\* this.props.animatedProps: absent, or an object that exposes viewDescriptors
AnimatedPropsValues == {"undefined", "animatedProps"}

\* ------------------------------------------- the values the projector reads
\* a plain scalar, an AnimatedValue (id: its _startingValue), an AnimatedNode
\* that is no AnimatedValue, and an array or object of values
Scalar(v) == [kind |-> "plain", id |-> v]
AnimatedValueOf(start) == [kind |-> "AnimatedValue", id |-> start]
OtherNode == [kind |-> "AnimatedNode", id |-> ""]
Container(items) == [kind |-> "array", id |-> "", items |-> items]
\* a ref to a WorkletEventHandler whose eventNames is [name]; HandlerRef is a
\* ref to one whose eventNames is empty
HandlerFor(name) == [kind |-> "WorkletEventHandler", id |-> name]
HandlerEventName == "onGestureHandlerEvent"

\* a style object with the given values under its keys
StyleKeys == {"opacity", "transform"}
NoFields == [k \in StyleKeys |-> Absent]
StyleObject(fields) == [kind |-> "plain", node |-> "", items |-> <<>>, fields |-> fields]
\* style.initial of a style that exposes viewDescriptors
initialOf(node) == [NoFields EXCEPT !["opacity"] = Scalar(node)]
\* animatedProps.initial
AnimatedPropsKeys == {"text"}
AnimatedPropsInitial == [k \in AnimatedPropsKeys |-> Scalar("initial")]

\* dummyListener (lines 23-26) and the callback listeners[eventName] of a handler
DummyListener == [kind |-> "dummyListener", id |-> ""]
ListenerOf(eventName) == [kind |-> "listener", id |-> eventName]
\* the keys of the props render gives the wrapped component
OutKeys == Keys \cup {"style", "collapsable", HandlerEventName} \cup AnimatedPropsKeys

\* the props, under one key, and the styles the projector is applied to; a
\* style that exposes viewDescriptors is a top-level entry of the style array
ProjValues == {Absent, Scalar("1"), Event("A"), HandlerRef, HandlerFor(HandlerEventName),
               AnimatedValueOf("0"), OtherNode,
               Container(<<Scalar("1"), Container(<<Scalar("2")>>)>>),
               Container(<<Scalar("1"), Container(<<AnimatedValueOf("0")>>)>>)}
ProjProps == {[NoProps EXCEPT !["onScroll"] = v] : v \in ProjValues}
ProjStyles ==
  {NoStyle,
   StyleObject([opacity |-> AnimatedValueOf("0"), transform |-> Absent]),
   StyleObject([opacity |-> Scalar("1"), transform |-> Container(<<OtherNode>>)]),
   AnimatedStyle("S1"),
   StyleArray(<<StyleObject([opacity |-> Scalar("1"), transform |-> Scalar("t")]),
                AnimatedStyle("S1"),
                StyleArray(<<NoStyle,
                             StyleObject([opacity |-> AnimatedValueOf("0"),
                                          transform |-> Absent])>>)>>)}

isEvent(prop) == prop.kind = "AnimatedEvent"
isHandler(prop) == prop.kind = "WorkletEventHandler"

\* one external call made by an operation
Call(op, inst, key, id, n) == [op |-> op, inst |-> inst, key |-> key, id |-> id, n |-> n]

VARIABLES
  NODE_MAPPING,    \* TagKeys -> instance or "" (no entry)
  listeners,       \* listeners subscribed to 'onReanimatedPropsChange'
  phase,           \* per instance: "none", "constructed", "mounted", "unmounted"
  PlatformOS,      \* Platform.OS
  props,           \* per instance: this.props (the event props)
  style,           \* per instance: this.props.style
  animatedProps,   \* per instance: this.props.animatedProps
  viewDescriptors, \* per style node and animatedProps object: its descriptors
  propsAnimated,   \* per instance: this._propsAnimated (0: undefined)
  component,       \* per instance: this._component ("null" or a ref kind)
  invokeOnMount,   \* per instance: this._invokeAnimatedPropsCallbackOnMount
  deferred,        \* per instance: firings of _animatedPropsCallback deferred and not replayed
  viewRef,         \* per style node: style.viewRef, the instances pushed to it
  rendered,        \* the props render last gave the wrapped component
  renders,         \* calls of render in this behaviour
  Component,       \* the argument of the last createAnimatedComponent call
  wrapper,         \* whether createAnimatedComponent has returned a wrapper
  handler,         \* per instance: the WorkletEventHandler held by its handler refs
  attachedEvents,  \* per instance: (key, __nodeID) -> native attachments
  nodeDetached,    \* per props graph node: number of __detach calls
  nextNode,        \* next node createOrReusePropsNode builds
  calls,           \* external calls of the last operation, in order
  threw,           \* error raised by the last operation ("" if none)
  last,            \* the last operation and its arguments
  budget           \* componentDidUpdate calls left in this behaviour

vars == <<NODE_MAPPING, listeners, PlatformOS, phase, props, style, animatedProps,
          viewDescriptors, propsAnimated, component, invokeOnMount, deferred, handler,
          attachedEvents, nodeDetached, nextNode, calls, threw, last, budget,
          viewRef, rendered, renders, Component, wrapper>>

projectorVars == <<viewRef, rendered, renders>>
wrapVars == <<Component, wrapper>>

\* the objects that hold a descriptor set: the style nodes and the
\* animatedProps object of each instance
DescriptorOwners == StyleNodes \cup Instances

\* replayed: the deferred firings a componentDidMount found and replayed for;
\* flagged: reattachNeeded of the handler when a componentDidUpdate began
Op(name, inst, prevProps, viewTag, nativeProps, replayed, flagged) ==
  [op |-> name, inst |-> inst, prevProps |-> prevProps, viewTag |-> viewTag,
   nativeProps |-> nativeProps, replayed |-> replayed, flagged |-> flagged]

\* wrapped: whether createAnimatedComponent has wrapped a class component
InitState(updates, OSes, wrapped) ==
  /\ Component = (IF wrapped THEN "class" ELSE "")
  /\ wrapper = wrapped
  /\ NODE_MAPPING = [t \in TagKeys |-> ""]
  /\ listeners = 0
  /\ PlatformOS \in OSes
  /\ style = [i \in Instances |-> NoStyle]
  /\ animatedProps = [i \in Instances |-> "undefined"]
  /\ viewDescriptors = [o \in DescriptorOwners |-> {}]
  /\ phase = [i \in Instances |-> "none"]
  /\ props = [i \in Instances |-> NoProps]
  /\ propsAnimated = [i \in Instances |-> 0]
  /\ component = [i \in Instances |-> "null"]
  /\ invokeOnMount = [i \in Instances |-> FALSE]
  /\ deferred = [i \in Instances |-> 0]
  /\ viewRef = [n \in StyleNodes |-> <<>>]
  /\ rendered = [inst |-> "", listeners |-> FALSE, props |-> [k \in OutKeys |-> Absent]]
  /\ renders = 0
  /\ handler = [i \in Instances |->
                  [reattachNeeded |-> FALSE, viewTag |-> "undefined", registered |-> FALSE]]
  /\ attachedEvents = [i \in Instances |-> [b \in Keys \X EventIDs |-> 0]]
  /\ nodeDetached = [n \in 1..MaxNodes |-> 0]
  /\ nextNode = 1
  /\ calls = <<>>
  /\ threw = ""
  /\ last = Op("init", "", NoProps, "undefined", "", 0, FALSE)
  /\ budget = updates

\* the state after createAnimatedComponent(Component) of a class component
InitWith(updates, OSes) == InitState(updates, OSes, TRUE)

Init == InitWith(MaxUpdates, {"ios"})

\* ------------------------------------------------- external collaborators
\* findNodeHandle(component): the tag of the host instance the component
\* renders, null when it renders none (host: whether there is a host instance)
findNodeHandle(viewTag, host) == IF host THEN viewTag ELSE "null"

\* WorkletEventHandler.registerForEvents(viewTag, key): the handler keeps the
\* view tag it was registered on.
registerForEvents(h, viewTag) ==
  [h EXCEPT !.viewTag = viewTag, !.registered = TRUE]

\* WorkletEventHandler.unregisterFromEvents()
unregisterFromEvents(h) == [h EXCEPT !.registered = FALSE]

\* The native event module's bookkeeping of AnimatedEvent.attachEvent(node, key)
\* and AnimatedEvent.detachEvent(node, key), replayed over an operation's calls.
RECURSIVE applyEventCalls(_, _)
applyEventCalls(att, cs) ==
  IF cs = <<>> THEN att
  ELSE LET c == Head(cs)
           b == <<c.key, c.id>>
           att2 == IF c.op = "attachEvent" THEN [att EXCEPT ![b] = @ + 1]
                   ELSE IF c.op = "detachEvent" /\ att[b] > 0
                        THEN [att EXCEPT ![b] = @ - 1]
                   ELSE att
       IN applyEventCalls(att2, Tail(cs))

\* createOrReusePropsNode(nextProps, callback, oldNode): the old node when there
\* is one and the new props are structurally compatible with it, else a new node.
createOrReusePropsNode(oldPropsAnimated, compatible, fresh) ==
  IF oldPropsAnimated # 0 /\ compatible THEN oldPropsAnimated ELSE fresh

\* AnimatedNode.__detach() of each "__detach" call of an operation
RECURSIVE applyDetachCalls(_, _)
applyDetachCalls(nd, cs) ==
  IF cs = <<>> THEN nd
  ELSE LET c == Head(cs)
       IN applyDetachCalls(IF c.op = "__detach" THEN [nd EXCEPT ![c.n] = @ + 1] ELSE nd,
                           Tail(cs))

\* --------------------------------------------------------- native events
\* _attachNativeEvents, lines 102-117: [calls, handler]
RECURSIVE attachLoop(_, _, _, _, _)
attachLoop(i, n, p, viewTag, acc) ==
  IF n > Len(KeyOrder) THEN acc
  ELSE LET key == KeyOrder[n]
           prop == p[key]
           acc2 ==
             IF isEvent(prop)
             THEN [acc EXCEPT !.calls = Append(@, Call("attachEvent", i, key, prop.id, 0))]
             ELSE IF isHandler(prop)
             THEN [calls |-> Append(acc.calls, Call("registerForEvents", i, key, viewTag, 0)),
                   handler |-> registerForEvents(acc.handler, viewTag)]
             ELSE acc
       IN attachLoop(i, n + 1, p, viewTag, acc2)

_attachNativeEvents(i, p, h, viewTag) ==
  attachLoop(i, 1, p, viewTag, [calls |-> <<>>, handler |-> h])

\* _detachNativeEvents, lines 119-133: [calls, handler]
RECURSIVE detachLoop(_, _, _, _)
detachLoop(i, n, p, acc) ==
  IF n > Len(KeyOrder) THEN acc
  ELSE LET key == KeyOrder[n]
           prop == p[key]
           acc2 ==
             IF isEvent(prop)
             THEN [acc EXCEPT !.calls = Append(@, Call("detachEvent", i, key, prop.id, 0))]
             ELSE IF isHandler(prop)
             THEN [calls |-> Append(acc.calls, Call("unregisterFromEvents", i, key, "", 0)),
                   handler |-> unregisterFromEvents(acc.handler)]
             ELSE acc
       IN detachLoop(i, n + 1, p, acc2)

_detachNativeEvents(i, p, h) ==
  detachLoop(i, 1, p, [calls |-> <<>>, handler |-> h])

\* _reattachNativeEvents, first loop (lines 141-153): nextEvts
nextEvtsOf(p) == {p[k].id : k \in {k \in Keys : isEvent(p[k])}}

\* _reattachNativeEvents, first loop (lines 145-152): viewTag, the view tag
\* held by the first handler ref of this.props ("undefined" without one)
reattachViewTag(p, h) ==
  IF \E k \in Keys : isHandler(p[k]) THEN h.viewTag ELSE "undefined"

\* _reattachNativeEvents, lines 155: the property the second loop examines
\* for a key of prevProps
prevLoopProp(prevProps, p, key) == p[key]

\* _reattachNativeEvents, second loop (lines 154-171): [calls, handler, attached]
RECURSIVE reattachPrevLoop(_, _, _, _, _)
reattachPrevLoop(i, n, prevProps, p, acc) ==
  IF n > Len(KeyOrder) THEN acc
  ELSE LET key == KeyOrder[n]
           prop == prevLoopProp(prevProps, p, key)
           acc2 ==
             IF prevProps[key] = Absent THEN acc
             ELSE IF isEvent(prop)
             THEN IF prop.id \notin nextEvtsOf(p)
                  THEN [acc EXCEPT !.calls = Append(@, Call("detachEvent", i, key, prop.id, 0))]
                  ELSE [acc EXCEPT !.attached = @ \cup {prop.id}]
             ELSE IF isHandler(prop) /\ acc.handler.reattachNeeded
             THEN [acc EXCEPT
                     !.calls = Append(@, Call("unregisterFromEvents", i, key, "", 0)),
                     !.handler = unregisterFromEvents(@)]
             ELSE acc
       IN reattachPrevLoop(i, n + 1, prevProps, p, acc2)

\* a differ that attaches every AnimatedEvent of this.props again
needsAttachAlways(prop, attached) == TRUE

\* _reattachNativeEvents, line 175: whether an AnimatedEvent of this.props is attached
needsAttach(prop, attached) == prop.id \notin attached

\* _reattachNativeEvents, third loop (lines 173-186)
RECURSIVE reattachNextLoop(_, _, _, _, _)
reattachNextLoop(i, n, p, viewTag, acc) ==
  IF n > Len(KeyOrder) THEN acc
  ELSE LET key == KeyOrder[n]
           prop == p[key]
           acc2 ==
             IF isEvent(prop) /\ needsAttach(prop, acc.attached)
             THEN [acc EXCEPT !.calls = Append(@, Call("attachEvent", i, key, prop.id, 0))]
             ELSE IF isHandler(prop) /\ acc.handler.reattachNeeded
             THEN [acc EXCEPT
                     !.calls = Append(@, Call("registerForEvents", i, key, viewTag, 0)),
                     !.handler = [registerForEvents(@, viewTag) EXCEPT !.reattachNeeded = FALSE]]
             ELSE acc
       IN reattachNextLoop(i, n + 1, p, viewTag, acc2)

\* _reattachNativeEvents(prevProps), lines 135-187: [calls, handler, attached]
_reattachNativeEvents(i, prevProps, p, h) ==
  reattachNextLoop(i, 1, p, reattachViewTag(p, h),
    reattachPrevLoop(i, 1, prevProps, p,
      [calls |-> <<>>, handler |-> h, attached |-> {}]))

\* ------------------------------------------------ view descriptor publisher
\* flattenArray(array), lines 41-58, of an array given as its sequence of items
RECURSIVE flattenArray(_)
flattenArray(array) ==
  IF array = <<>> THEN <<>>
  ELSE LET item == Head(array)
       IN (IF item.kind = "array" THEN flattenArray(item.items) ELSE <<item>>)
            \o flattenArray(Tail(array))

\* a publisher that does not flatten the style array
flattenedStylesShallow(st) == IF st.kind = "array" THEN st.items ELSE <<st>>

\* _attachAnimatedStyles, lines 245-248: styles
flattenedStyles(st) ==
  flattenArray(IF st.kind = "array" THEN st.items ELSE <<st>>)

\* _hasReanimated2Props(flattenStyles), lines 288-300
_hasReanimated2Props(st, ap, flattenStyles) ==
  \/ ap # "undefined"
  \/ /\ st.kind # "undefined"
     /\ \E n \in 1..Len(flattenStyles) : flattenStyles[n].kind = "animated"

\* _attachAnimatedStyles, lines 252 and 267: viewName
viewNameOf(os) == IF os = "web" THEN "null" ELSE ViewName

\* viewDescriptors.add({ tag, name }) and viewDescriptors.remove(tag) of each
\* call an operation makes on a descriptor set
RECURSIVE applyDescriptorCalls(_, _, _)
applyDescriptorCalls(vd, cs, viewName) ==
  IF cs = <<>> THEN vd
  ELSE LET c == Head(cs)
       IN applyDescriptorCalls(
            IF c.op = "viewDescriptors.add"
            THEN [vd EXCEPT ![c.key] = @ \cup {[tag |-> c.id, name |-> viewName]}]
            ELSE IF c.op = "viewDescriptors.remove"
            THEN [vd EXCEPT ![c.key] = {d \in @ : d.tag # c.id}]
            ELSE vd,
            Tail(cs), viewName)

\* a publisher that first removes the view from the descriptor set of every
\* style node that is not in the flattened style
RECURSIVE removeCalls(_, _, _, _)
removeCalls(i, nodes, keep, viewTag) ==
  IF nodes = {} THEN <<>>
  ELSE LET node == CHOOSE n \in nodes : TRUE
       IN (IF node \in keep THEN <<>>
           ELSE <<Call("viewDescriptors.remove", i, node, viewTag, 0)>>)
            \o removeCalls(i, nodes \ {node}, keep, viewTag)

styleDescriptorCallsExclusive(i, flattenStyles, viewTag) ==
  LET keep == {flattenStyles[n].node : n \in 1..Len(flattenStyles)}
      animated == SelectSeq(flattenStyles, LAMBDA e : e.kind = "animated")
      adds == [n \in 1..Len(animated) |->
                 Call("viewDescriptors.add", i, animated[n].node, viewTag, 0)]
  IN removeCalls(i, StyleNodes, keep, viewTag) \o adds

\* _attachAnimatedStyles, lines 274-278: one add per flattened style that
\* exposes viewDescriptors; a call holds the owner of the set (key) and the
\* tag (id)
RECURSIVE styleDescriptorCalls(_, _, _)
styleDescriptorCalls(i, flattenStyles, viewTag) ==
  IF flattenStyles = <<>> THEN <<>>
  ELSE LET st == Head(flattenStyles)
       IN (IF st.kind = "animated"
           THEN <<Call("viewDescriptors.add", i, st.node, viewTag, 0)>>
           ELSE <<>>)
            \o styleDescriptorCalls(i, Tail(flattenStyles), viewTag)

\* _attachAnimatedStyles, lines 244-286: [calls, threw]; host: whether
\* RNRenderer.findHostInstance_DEPRECATED(this) finds a host instance
_attachAnimatedStyles(i, os, st, ap, viewTag, host) ==
  LET styles == flattenedStyles(st)
      adapt == IF os # "web" /\ _hasReanimated2Props(st, ap, styles)
               THEN <<Call("adaptViewConfig", i, "", "", 0)>>
               ELSE <<>>
      adds == styleDescriptorCalls(i, styles, viewTag)
                \o (IF ap # "undefined"
                    THEN <<Call("viewDescriptors.add", i, i, viewTag, 0)>>
                    ELSE <<>>)
  IN IF os # "web" /\ ~host
     THEN [calls |-> <<>>, threw |-> "Cannot find host instance"]
     ELSE [calls |-> adapt \o adds, threw |-> ""]

\* ----------------------------------------------------- props graph binder
\* a binder that never releases the node it replaces
_attachPropsKeepOld(i, oldPropsAnimated, compatible, fresh) ==
  LET node == createOrReusePropsNode(oldPropsAnimated, compatible, fresh)
  IN [node |-> node, calls |-> <<Call("createOrReusePropsNode", i, "", "", node)>>]

\* a binder that releases the old node before it installs the new one
_attachPropsDetachFirst(i, oldPropsAnimated, compatible, fresh) ==
  LET node == createOrReusePropsNode(oldPropsAnimated, compatible, fresh)
      installed == <<Call("createOrReusePropsNode", i, "", "", node)>>
  IN [node |-> node,
      calls |-> IF oldPropsAnimated # node /\ oldPropsAnimated # 0
                THEN <<Call("__detach", i, "", "", oldPropsAnimated)>> \o installed
                ELSE installed]

\* _attachProps(nextProps), lines 209-229: [node, calls]
_attachProps(i, oldPropsAnimated, compatible, fresh) ==
  LET node == createOrReusePropsNode(oldPropsAnimated, compatible, fresh)
      installed == <<Call("createOrReusePropsNode", i, "", "", node)>>
  IN [node |-> node,
      calls |-> IF oldPropsAnimated # node /\ oldPropsAnimated # 0
                THEN Append(installed, Call("__detach", i, "", "", oldPropsAnimated))
                ELSE installed]

\* a callback that forces a render of every wrapped component
animatedPropsCallbackForce(i, ref, node, flag) ==
  IF ref = "null" THEN [calls |-> <<>>, invokeOnMount |-> TRUE]
  ELSE [calls |-> <<Call("forceUpdate", i, "", "", 0)>>, invokeOnMount |-> flag]

\* a callback that does not defer: without a wrapped component it forces a render
animatedPropsCallbackEager(i, ref, node, flag) ==
  IF ref = "native"
  THEN [calls |-> <<Call("setNativeProps", i, "", "__getValue", node)>>,
        invokeOnMount |-> flag]
  ELSE [calls |-> <<Call("forceUpdate", i, "", "", 0)>>, invokeOnMount |-> flag]

\* _animatedPropsCallback, lines 194-207: [calls, invokeOnMount]
animatedPropsCallback(i, ref, node, flag) ==
  IF ref = "null" THEN [calls |-> <<>>, invokeOnMount |-> TRUE]
  ELSE IF ref # "native"
  THEN [calls |-> <<Call("forceUpdate", i, "", "", 0)>>, invokeOnMount |-> flag]
  ELSE [calls |-> <<Call("setNativeProps", i, "", "__getValue", node)>>,
        invokeOnMount |-> flag]

\* ------------------------------------------------------------- registry
size(map) == Cardinality({t \in TagKeys : map[t] # ""})

\* _attachPropUpdater, lines 236-242: [map, listeners, calls]
_attachPropUpdater(map, ls, viewTag, i) ==
  LET map2 == [map EXCEPT ![viewTag] = i]
  IN IF size(map2) = 1
     THEN [map |-> map2, listeners |-> ls + 1,
           calls |-> <<Call("addListener", i, "", "onReanimatedPropsChange", 0)>>]
     ELSE [map |-> map2, listeners |-> ls, calls |-> <<>>]

\* a registry that unsubscribes on every unregister
_detachPropUpdaterAlways(map, ls, viewTag, i) ==
  [map |-> [map EXCEPT ![viewTag] = ""], listeners |-> 0,
   calls |-> <<Call("removeAllListeners", i, "", "onReanimatedPropsChange", 0)>>]

\* _detachPropUpdater, lines 302-308: [map, listeners, calls]
_detachPropUpdater(map, ls, viewTag, i) ==
  LET map2 == [map EXCEPT ![viewTag] = ""]
  IN IF size(map2) = 0
     THEN [map |-> map2, listeners |-> 0,
           calls |-> <<Call("removeAllListeners", i, "", "onReanimatedPropsChange", 0)>>]
     ELSE [map |-> map2, listeners |-> ls, calls |-> <<>>]

\* _updateFromNative(props), lines 231-234: [calls, threw]
_updateFromNative(i, ref, nativeProps) ==
  IF ref = "null" THEN [calls |-> <<>>, threw |-> "TypeError"]
  ELSE IF ref = "native"
  THEN [calls |-> <<Call("setNativeProps", i, "", nativeProps, 0)>>, threw |-> ""]
  ELSE [calls |-> <<>>, threw |-> ""]

\* a listener that ignores data.viewTag and takes any entry of the registry
listenerAnyEntry(map, refs, viewTag, nativeProps) ==
  LET inst == IF \E t \in TagKeys : map[t] # ""
              THEN map[CHOOSE t \in TagKeys : map[t] # ""]
              ELSE ""
      up == _updateFromNative(inst, refs[inst], nativeProps)
  IN IF inst # ""
     THEN [calls |-> <<Call("_updateFromNative", inst, "", nativeProps, 0)>> \o up.calls,
           threw |-> up.threw]
     ELSE [calls |-> <<>>, threw |-> ""]

\* listener(data), lines 18-21: [calls, threw]
listenerCalls(map, refs, viewTag, nativeProps) ==
  LET inst == map[viewTag]
      up == _updateFromNative(inst, refs[inst], nativeProps)
  IN IF inst # ""
     THEN [calls |-> <<Call("_updateFromNative", inst, "", nativeProps, 0)>> \o up.calls,
           threw |-> up.threw]
     ELSE [calls |-> <<>>, threw |-> ""]

\* ------------------------------------------------- static prop projector
\* hasAnimatedNodes(value), lines 28-39
RECURSIVE hasAnimatedNodes(_)
hasAnimatedNodes(value) ==
  IF value.kind \in {"AnimatedValue", "AnimatedNode"} THEN TRUE
  ELSE IF value.kind = "array"
       THEN \E n \in 1..Len(value.items) : hasAnimatedNodes(value.items[n])
       ELSE FALSE

\* the values under the keys of a style object
fieldsOf(st) == IF "fields" \in DOMAIN st THEN st.fields ELSE NoFields

\* StyleSheet.flatten(style): the keys of the style objects of a nested array
\* merged into one object, a later object overriding an earlier one,
\* null/undefined entries skipped
RECURSIVE StyleSheetFlatten(_)
StyleSheetFlatten(st) ==
  IF st.kind = "array"
  THEN IF st.items = <<>> THEN NoFields
       ELSE LET n == Len(st.items)
                rest == StyleSheetFlatten(StyleArray(SubSeq(st.items, 1, n - 1)))
                top == StyleSheetFlatten(st.items[n])
            IN [k \in StyleKeys |-> IF top[k].kind # "absent" THEN top[k] ELSE rest[k]]
  ELSE IF st.kind = "plain" THEN fieldsOf(st)
  ELSE NoFields

\* _filterNonAnimatedProps, line 361: styles
topLevelStyles(st) == IF st.kind = "array" THEN st.items ELSE <<st>>

\* _filterNonAnimatedProps, lines 362-370: processedStyle
processedStyle(st) ==
  LET styles == topLevelStyles(st)
  IN [n \in 1..Len(styles) |->
        IF styles[n].kind = "animated"
        THEN StyleObject(initialOf(styles[n].node))
        ELSE styles[n]]

\* _filterNonAnimatedProps, line 365: the style nodes whose viewRef gets a
\* push of this, in order
viewRefPushes(st) ==
  LET animated == SelectSeq(topLevelStyles(st), LAMBDA e : e.kind = "animated")
  IN [n \in 1..Len(animated) |-> animated[n].node]

\* _filterNonAnimatedStyle(inputStyle), lines 341-354
_filterNonAnimatedStyle(inputStyle) ==
  [k \in StyleKeys |->
     LET value == inputStyle[k]
     IN IF value.kind = "absent" THEN Absent
        ELSE IF ~hasAnimatedNodes(value) THEN value
        ELSE IF value.kind = "AnimatedValue" THEN Scalar(value.id)
        ELSE Absent]

\* _filterNonAnimatedProps, lines 378-403: props[key] for a value that is
\* neither the style nor the animatedProps
projectValue(value) ==
  IF value.kind = "absent" THEN Absent
  ELSE IF isEvent(value) THEN DummyListener
  ELSE IF isHandler(value) THEN (IF value.id = "" THEN DummyListener ELSE Absent)
  ELSE IF value.kind \notin {"AnimatedValue", "AnimatedNode"} THEN value
  ELSE IF value.kind = "AnimatedValue" THEN Scalar(value.id)
  ELSE Absent

\* _filterNonAnimatedProps(inputProps), lines 356-406: [props, pushes];
\* hasListeners: whether the handler has a listeners object
_filterNonAnimatedProps(p, st, ap, hasListeners) ==
  [props |->
     [k \in OutKeys |->
        IF k \in Keys THEN projectValue(p[k])
        ELSE IF k = "style"
        THEN IF st.kind = "undefined" THEN Absent
             ELSE StyleObject(_filterNonAnimatedStyle(
                    StyleSheetFlatten(StyleArray(processedStyle(st)))))
        ELSE IF k \in AnimatedPropsKeys
        THEN IF ap # "undefined" THEN AnimatedPropsInitial[k] ELSE Absent
        ELSE IF k = HandlerEventName
        THEN IF \E key \in Keys : isHandler(p[key]) /\ p[key].id = k
             THEN IF hasListeners THEN ListenerOf(k) ELSE DummyListener
             ELSE Absent
        ELSE Absent],
   pushes |-> IF st.kind = "undefined" THEN <<>> ELSE viewRefPushes(st)]

\* style.viewRef.push(this) for each style node of a sequence
RECURSIVE pushAll(_, _, _)
pushAll(refs, nodes, i) ==
  IF nodes = <<>> THEN refs
  ELSE pushAll([refs EXCEPT ![Head(nodes)] = Append(@, i)], Tail(nodes), i)

\* --------------------------------------------------------------- actions
\* typeof Component === 'function', Component.prototype and
\* Component.prototype.isReactComponent of each kind of component
typeofFunction(c) == c \in {"class", "function", "arrow"}
hasPrototype(c) == c \in {"class", "function"}
isReactComponent(c) == c = "class"

\* a wrap that accepts every component
supportedAlways(c) == TRUE

\* createAnimatedComponent, lines 61-63: the condition of the invariant
supported(c) ==
  \/ ~typeofFunction(c)
  \/ hasPrototype(c) /\ isReactComponent(c)

\* createAnimatedComponent(Component), lines 60-66 and 424-431
createAnimatedComponent(c) ==
  /\ ~wrapper
  /\ Component' = c
  /\ wrapper' = supported(c)
  /\ threw' = IF supported(c) THEN ""
              ELSE "createAnimatedComponent does not support stateless functional components"
  /\ calls' = <<>>
  /\ last' = Op("createAnimatedComponent", "", NoProps, "undefined", "", 0, FALSE)
  /\ UNCHANGED <<NODE_MAPPING, listeners, PlatformOS, phase, props, style,
                 animatedProps, viewDescriptors, propsAnimated, component,
                 invokeOnMount, deferred, handler, attachedEvents, nodeDetached,
                 nextNode, budget, projectorVars>>

\* constructor(props), lines 71-74
constructor(i, p, st, ap) ==
  /\ wrapper
  /\ phase[i] = "none"
  /\ nextNode <= MaxNodes
  /\ LET bound == _attachProps(i, propsAnimated[i], FALSE, nextNode)
     IN /\ propsAnimated' = [propsAnimated EXCEPT ![i] = bound.node]
        /\ calls' = bound.calls
        /\ nodeDetached' = applyDetachCalls(nodeDetached, bound.calls)
  /\ nextNode' = nextNode + 1
  /\ props' = [props EXCEPT ![i] = p]
  /\ style' = [style EXCEPT ![i] = st]
  /\ animatedProps' = [animatedProps EXCEPT ![i] = ap]
  /\ phase' = [phase EXCEPT ![i] = "constructed"]
  /\ threw' = ""
  /\ last' = Op("constructor", i, NoProps, "undefined", "", 0, FALSE)
  /\ UNCHANGED <<projectorVars, wrapVars>>
  /\ UNCHANGED <<NODE_MAPPING, listeners, PlatformOS, viewDescriptors, component,
                 invokeOnMount, deferred, handler, attachedEvents, budget>>

\* setLocalRef(ref), lines 320-338: the host sets the ref when it commits the
\* first render and clears it after componentWillUnmount
setLocalRef(i, ref) ==
  /\ \/ phase[i] = "constructed" /\ component[i] = "null" /\ ref \in Refs
     \/ phase[i] = "unmounted" /\ component[i] # "null" /\ ref = "null"
  /\ component' = [component EXCEPT ![i] = ref]
  /\ calls' = <<>>
  /\ threw' = ""
  /\ last' = Op("setLocalRef", i, NoProps, "undefined", "", 0, FALSE)
  /\ UNCHANGED <<projectorVars, wrapVars>>
  /\ UNCHANGED <<NODE_MAPPING, listeners, PlatformOS, phase, props, style,
                 animatedProps, viewDescriptors, propsAnimated, invokeOnMount,
                 deferred, handler, attachedEvents, nodeDetached, nextNode, budget>>

\* _animatedPropsCallback fired by the props graph node, lines 194-207
_animatedPropsCallback(i) ==
  /\ phase[i] \in {"constructed", "mounted"}
  /\ component[i] = "null" => deferred[i] < MaxDeferred
  /\ deferred' = [deferred EXCEPT ![i] = IF component[i] = "null" THEN @ + 1 ELSE @]
  /\ LET cb == animatedPropsCallback(i, component[i], propsAnimated[i], invokeOnMount[i])
     IN /\ calls' = cb.calls
        /\ invokeOnMount' = [invokeOnMount EXCEPT ![i] = cb.invokeOnMount]
  /\ threw' = ""
  /\ last' = Op("_animatedPropsCallback", i, NoProps, "undefined", "", 0, FALSE)
  /\ UNCHANGED <<projectorVars, wrapVars>>
  /\ UNCHANGED <<NODE_MAPPING, listeners, PlatformOS, phase, props, style,
                 animatedProps, viewDescriptors, propsAnimated, component,
                 handler, attachedEvents, nodeDetached, nextNode, budget>>

\* componentDidMount, lines 82-92
componentDidMount(i, viewTag, host) ==
  /\ phase[i] = "constructed"
  /\ component[i] # "null"
  /\ LET replay == IF invokeOnMount[i]
                   THEN animatedPropsCallback(i, component[i], propsAnimated[i], FALSE).calls
                   ELSE <<>>
         view == IF propsAnimated[i] # 0
                 THEN <<Call("setNativeView", i, "", "", propsAnimated[i])>>
                 ELSE <<>>
         tag == findNodeHandle(viewTag, host)
         ev == _attachNativeEvents(i, props[i], handler[i], tag)
         reg == _attachPropUpdater(NODE_MAPPING, listeners, tag, i)
         pub == _attachAnimatedStyles(i, PlatformOS, style[i], animatedProps[i], tag, host)
     IN /\ invokeOnMount' = [invokeOnMount EXCEPT ![i] = FALSE]
        /\ deferred' = [deferred EXCEPT ![i] = 0]
        /\ handler' = [handler EXCEPT ![i] = ev.handler]
        /\ attachedEvents' = [attachedEvents EXCEPT ![i] = applyEventCalls(@, ev.calls)]
        /\ NODE_MAPPING' = reg.map
        /\ listeners' = reg.listeners
        /\ viewDescriptors' = applyDescriptorCalls(viewDescriptors, pub.calls, viewNameOf(PlatformOS))
        /\ calls' = replay \o view \o ev.calls \o reg.calls \o pub.calls
        /\ threw' = pub.threw
  /\ phase' = [phase EXCEPT ![i] = "mounted"]
  /\ last' = Op("componentDidMount", i, NoProps, findNodeHandle(viewTag, host), "",
               deferred[i], FALSE)
  /\ UNCHANGED <<projectorVars, wrapVars>>
  /\ UNCHANGED <<PlatformOS, props, style, animatedProps, propsAnimated, component,
                 nodeDetached, nextNode, budget>>

\* componentDidUpdate(prevProps), lines 310-316, after the host has replaced
\* this.props by p; flagged: the handler was updated by this render
componentDidUpdate(i, p, st, ap, compatible, flagged, viewTag, host) ==
  /\ phase[i] = "mounted"
  /\ budget > 0
  /\ compatible \/ nextNode <= MaxNodes
  /\ flagged => \E k \in Keys : isHandler(p[k])
  /\ LET prevProps == props[i]
         bound == _attachProps(i, propsAnimated[i], compatible, nextNode)
         h == [handler[i] EXCEPT !.reattachNeeded = @ \/ flagged]
         ev == _reattachNativeEvents(i, prevProps, p, h)
         view == IF bound.node # 0
                 THEN <<Call("setNativeView", i, "", "", bound.node)>>
                 ELSE <<>>
         tag == findNodeHandle(viewTag, host)
         pub == _attachAnimatedStyles(i, PlatformOS, st, ap, tag, host)
     IN /\ propsAnimated' = [propsAnimated EXCEPT ![i] = bound.node]
        /\ nextNode' = IF bound.node = nextNode THEN nextNode + 1 ELSE nextNode
        /\ nodeDetached' = applyDetachCalls(nodeDetached, bound.calls)
        /\ handler' = [handler EXCEPT ![i] = ev.handler]
        /\ attachedEvents' = [attachedEvents EXCEPT ![i] = applyEventCalls(@, ev.calls)]
        /\ viewDescriptors' = applyDescriptorCalls(viewDescriptors, pub.calls, viewNameOf(PlatformOS))
        /\ calls' = bound.calls \o ev.calls \o view \o pub.calls
        /\ threw' = pub.threw
        /\ last' = Op("componentDidUpdate", i, prevProps, tag, "", 0, h.reattachNeeded)
  /\ props' = [props EXCEPT ![i] = p]
  /\ style' = [style EXCEPT ![i] = st]
  /\ animatedProps' = [animatedProps EXCEPT ![i] = ap]
  /\ budget' = budget - 1
  /\ UNCHANGED <<projectorVars, wrapVars>>
  /\ UNCHANGED <<NODE_MAPPING, listeners, PlatformOS, phase, component, invokeOnMount,
                 deferred>>

\* componentWillUnmount, lines 76-80: [map, listeners, handler, calls, threw]
willUnmount(i, tag) ==
  LET reg == _detachPropUpdater(NODE_MAPPING, listeners, tag, i)
      rel == IF propsAnimated[i] # 0
             THEN <<Call("__detach", i, "", "", propsAnimated[i])>>
             ELSE <<>>
      ev == _detachNativeEvents(i, props[i], handler[i])
  IN IF component[i] = "null"
     THEN \* _getEventViewRef (line 97) reads a property of null
          [map |-> reg.map, listeners |-> reg.listeners, handler |-> handler[i],
           calls |-> reg.calls \o rel, threw |-> "TypeError"]
     ELSE [map |-> reg.map, listeners |-> reg.listeners, handler |-> ev.handler,
           calls |-> reg.calls \o rel \o ev.calls, threw |-> ""]

runWillUnmount(i, tag) ==
  LET r == willUnmount(i, tag)
  IN /\ NODE_MAPPING' = r.map
     /\ listeners' = r.listeners
     /\ handler' = [handler EXCEPT ![i] = r.handler]
     /\ calls' = r.calls
     /\ threw' = r.threw
     /\ nodeDetached' = applyDetachCalls(nodeDetached, r.calls)
     /\ attachedEvents' = [attachedEvents EXCEPT ![i] = applyEventCalls(@, r.calls)]
     /\ phase' = [phase EXCEPT ![i] = "unmounted"]
     /\ last' = Op("componentWillUnmount", i, NoProps, tag, "", 0, FALSE)
     /\ UNCHANGED <<projectorVars, wrapVars>>
     /\ UNCHANGED <<PlatformOS, props, style, animatedProps, viewDescriptors,
                    propsAnimated, component, invokeOnMount, deferred, nextNode, budget>>

componentWillUnmount(i, viewTag, host) ==
  /\ phase[i] = "mounted"
  /\ runWillUnmount(i, findNodeHandle(viewTag, host))

\* componentWillUnmount run again on an instance that has unmounted
componentWillUnmountAgain(i, viewTag, host) ==
  /\ phase[i] = "unmounted"
  /\ nodeDetached[propsAnimated[i]] < MaxTeardowns
  /\ runWillUnmount(i, findNodeHandle(viewTag, host))

\* listener(data), lines 18-21, invoked by the emitter while subscribed
listener(viewTag, nativeProps) ==
  /\ listeners > 0
  /\ LET r == listenerCalls(NODE_MAPPING, component, viewTag, nativeProps)
     IN /\ calls' = r.calls
        /\ threw' = r.threw
  /\ last' = Op("listener", "", NoProps, viewTag, nativeProps, 0, FALSE)
  /\ UNCHANGED <<projectorVars, wrapVars>>
  /\ UNCHANGED <<NODE_MAPPING, listeners, PlatformOS, phase, props, style,
                 animatedProps, viewDescriptors, propsAnimated, component,
                 invokeOnMount, deferred, handler, attachedEvents, nodeDetached, nextNode,
                 budget>>

\* render, lines 408-417
render(i, hasListeners) ==
  /\ phase[i] \in {"constructed", "mounted"}
  /\ renders < MaxRenders
  /\ LET r == _filterNonAnimatedProps(props[i], style[i], animatedProps[i], hasListeners)
         collapsable == IF PlatformOS = "web" THEN Absent ELSE Scalar("false")
     IN /\ rendered' = [inst |-> i, listeners |-> hasListeners,
                        props |-> [r.props EXCEPT !["collapsable"] = collapsable]]
        /\ viewRef' = pushAll(viewRef, r.pushes, i)
  /\ renders' = renders + 1
  /\ calls' = <<>>
  /\ threw' = ""
  /\ last' = Op("render", i, NoProps, "undefined", "", 0, FALSE)
  /\ UNCHANGED <<NODE_MAPPING, listeners, PlatformOS, phase, props, style,
                 animatedProps, viewDescriptors, propsAnimated, component,
                 invokeOnMount, deferred, handler, attachedEvents, nodeDetached,
                 nextNode, budget, wrapVars>>

Render(I) == \E i \in I, hasListeners \in BOOLEAN : render(i, hasListeners)

Wrap == \E c \in ComponentKinds : createAnimatedComponent(c)

Construct(I, P, ST, AP) ==
  \E i \in I, p \in P, st \in ST, ap \in AP : constructor(i, p, st, ap)
SetRef(I, R) == \E i \in I, ref \in R \cup {"null"} : setLocalRef(i, ref)
Callback(I) == \E i \in I : _animatedPropsCallback(i)
Mount(I, T, H) ==
  \E i \in I, viewTag \in T, host \in H : componentDidMount(i, viewTag, host)
Update(I, P, ST, AP, T, H) ==
  \E i \in I, p \in P, st \in ST, ap \in AP, compatible \in BOOLEAN,
     flagged \in BOOLEAN, viewTag \in T, host \in H :
    componentDidUpdate(i, p, st, ap, compatible, flagged, viewTag, host)
Unmount(I, T, H) ==
  \E i \in I, viewTag \in T, host \in H : componentWillUnmount(i, viewTag, host)
Notify == \E viewTag \in Tags, nativeProps \in NativeProps : listener(viewTag, nativeProps)

\* every instance, with the small props and a wrapped component that has
\* setNativeProps
Next ==
  \/ Construct(Instances, SmallProps, {NoStyle}, {"undefined"})
  \/ SetRef(Instances, {"native"})
  \/ Callback(Instances)
  \/ Mount(Instances, Tags, {TRUE})
  \/ Update(Instances, SmallProps, {NoStyle}, {"undefined"}, {"t1"}, {TRUE})
  \/ Unmount(Instances, Tags, {TRUE})
  \/ Notify

Spec == Init /\ [][Next]_vars

\* every instance mounted, notified and unmounted, with either kind of
\* wrapped component
NextRegistry ==
  \/ Construct(Instances, SmallProps, {NoStyle}, {"undefined"})
  \/ SetRef(Instances, Refs)
  \/ Mount(Instances, Tags, {TRUE})
  \/ Unmount(Instances, Tags, {TRUE})
  \/ Notify

SpecRegistry == InitWith(0, {"ios"}) /\ [][NextRegistry]_vars

\* one instance through its lifecycle, with every props, under one view tag
InitEvents == InitWith(MaxEventUpdates, {"ios"})

NextEvents ==
  \/ Construct({"a"}, PropsUniverse, {NoStyle}, {"undefined"})
  \/ SetRef({"a"}, {"native"})
  \/ Mount({"a"}, {"t1"}, {TRUE})
  \/ Update({"a"}, PropsUniverse, {NoStyle}, {"undefined"}, {"t1"}, {TRUE})
  \/ Unmount({"a"}, {"t1"}, {TRUE})

SpecEvents == InitEvents /\ [][NextEvents]_vars

\* one instance through its lifecycle, with several updates and a host
\* instance that may be missing
InitBinder == InitWith(MaxBinderUpdates, {"ios"})

NextBinder ==
  \/ Construct({"a"}, SmallProps, {NoStyle}, {"undefined"})
  \/ SetRef({"a"}, Refs)
  \/ Callback({"a"})
  \/ Mount({"a"}, Tags, BOOLEAN)
  \/ Update({"a"}, SmallProps, {NoStyle}, {"undefined"}, {"t1"}, BOOLEAN)
  \/ Unmount({"a"}, Tags, BOOLEAN)

SpecBinder == InitBinder /\ [][NextBinder]_vars

\* one instance through its lifecycle on either platform, with every style
\* and a host instance that may be missing
InitStyles == InitWith(MaxStyleUpdates, {"ios", "web"})

NextStyles ==
  \/ Construct({"a"}, {NoProps}, Styles, AnimatedPropsValues)
  \/ SetRef({"a"}, Refs)
  \/ Mount({"a"}, Tags, BOOLEAN)
  \/ Update({"a"}, {NoProps}, Styles, AnimatedPropsValues, Tags, BOOLEAN)
  \/ Unmount({"a"}, Tags, BOOLEAN)

SpecStyles == InitStyles /\ [][NextStyles]_vars

\* one instance through its lifecycle, torn down more than once
UnmountAgain(I, T, H) ==
  \E i \in I, viewTag \in T, host \in H : componentWillUnmountAgain(i, viewTag, host)

NextTwice ==
  \/ Construct({"a"}, PropsUniverse, {NoStyle}, {"undefined"})
  \/ SetRef({"a"}, Refs)
  \/ Mount({"a"}, Tags, BOOLEAN)
  \/ Unmount({"a"}, Tags, BOOLEAN)
  \/ UnmountAgain({"a"}, Tags, BOOLEAN)

SpecTwice == InitWith(0, {"ios"}) /\ [][NextTwice]_vars

\* one instance constructed with every kind of value, style and animatedProps,
\* and rendered on either platform
NextProjector ==
  \/ Construct({"a"}, ProjProps, ProjStyles, AnimatedPropsValues)
  \/ Render({"a"})

SpecProjector == InitWith(0, {"ios", "web"}) /\ [][NextProjector]_vars

\* the props with at most one handler ref
HandlerProps ==
  {NoProps,
   [NoProps EXCEPT !["onScroll"] = HandlerRef],
   [NoProps EXCEPT !["onPress"] = HandlerRef],
   [NoProps EXCEPT !["onScroll"] = Event("A"), !["onPress"] = HandlerRef],
   [NoProps EXCEPT !["onScroll"] = Plain]}

\* one instance through its lifecycle, with a handler ref that comes, goes
\* and is flagged, and a view tag that may change
InitHandlers == InitWith(MaxHandlerUpdates, {"ios"})

NextHandlers ==
  \/ Construct({"a"}, HandlerProps, {NoStyle}, {"undefined"})
  \/ SetRef({"a"}, {"native"})
  \/ Mount({"a"}, Tags, {TRUE})
  \/ Update({"a"}, HandlerProps, {NoStyle}, {"undefined"}, Tags, {TRUE})
  \/ Unmount({"a"}, Tags, {TRUE})

SpecHandlers == InitHandlers /\ [][NextHandlers]_vars

\* a component wrapped, then one instance of the wrapper through its lifecycle
NextWrap ==
  \/ Wrap
  \/ Construct({"a"}, PropsUniverse, {NoStyle}, {"undefined"})
  \/ Render({"a"})
  \/ SetRef({"a"}, Refs)
  \/ Mount({"a"}, Tags, {TRUE})
  \/ Unmount({"a"}, Tags, {TRUE})

SpecWrap == InitState(0, {"ios"}, FALSE) /\ [][NextWrap]_vars

\* ------------------------------------------------------------ properties
\* the calls of the last operation made to the native event module
eventCalls(op) == SelectSeq(calls, LAMBDA c : c.op = op)
calledIds(op) == {eventCalls(op)[n].id : n \in 1..Len(eventCalls(op))}
afterUpdate == last.op = "componentDidUpdate"

\* C1: the attachEvent/detachEvent calls of an update are the symmetric
\* difference of the __nodeID sets of prevProps and this.props: the detached
\* identities are those of prevProps absent from this.props, the attached ones
\* those of this.props absent from prevProps.
C1_EventDiffIsSymmetricDifference ==
  afterUpdate =>
    LET prevIds == nextEvtsOf(last.prevProps)
        curIds == nextEvtsOf(props[last.inst])
    IN /\ calledIds("detachEvent") = prevIds \ curIds
       /\ calledIds("attachEvent") = curIds \ prevIds

\* an update that replaced, under key k, the event x by the event y, where
\* x is gone from this.props and y is new to them
replaced(k, x, y) ==
  /\ afterUpdate
  /\ x # y
  /\ last.prevProps[k] = Event(x)
  /\ props[last.inst][k] = Event(y)
  /\ x \notin nextEvtsOf(props[last.inst])
  /\ y \notin nextEvtsOf(last.prevProps)

\* C2: replacing handlerA by handlerB under one key issues exactly one detach of
\* handlerA and one attach of handlerB for that key, the detach first.
C2_ReplaceDetachesThenAttaches ==
  \A k \in Keys, x \in EventIDs, y \in EventIDs :
    replaced(k, x, y) =>
      \E m \in 1..Len(calls), n \in 1..Len(calls) :
        /\ m < n
        /\ calls[m] = Call("detachEvent", last.inst, k, x, 0)
        /\ calls[n] = Call("attachEvent", last.inst, k, y, 0)
        /\ \A q \in 1..Len(calls) :
             /\ calls[q] = calls[m] => q = m
             /\ calls[q] = calls[n] => q = n

\* C3: the bindings natively attached for an instance are those of its props
\* while it is mounted, each once, and none once it has unmounted.
C3_AttachedSetMatchesProps ==
  \A i \in Instances, k \in Keys, id \in EventIDs :
    /\ phase[i] = "mounted" =>
         attachedEvents[i][<<k, id>>] = IF props[i][k] = Event(id) THEN 1 ELSE 0
    /\ phase[i] = "unmounted" => attachedEvents[i][<<k, id>>] = 0

\* key k holds the same event before and after the last update
survivor(k) ==
  /\ afterUpdate
  /\ isEvent(props[last.inst][k])
  /\ last.prevProps[k] = props[last.inst][k]

\* C4: an update issues no attach and no detach for a binding that holds the
\* same identity under its key before and after it, and no attach or detach at
\* all when every event binding of prevProps and this.props is such a survivor.
C4_SurvivorsUntouched ==
  afterUpdate =>
    /\ \A k \in Keys : survivor(k) =>
         \A n \in 1..Len(calls) :
           calls[n].op \in {"attachEvent", "detachEvent"} =>
             ~(calls[n].key = k /\ calls[n].id = props[last.inst][k].id)
    /\ (\A k \in Keys : (isEvent(last.prevProps[k]) \/ isEvent(props[last.inst][k]))
                          => survivor(k))
         => eventCalls("attachEvent") = <<>> /\ eventCalls("detachEvent") = <<>>

C4_Witness ==
  /\ afterUpdate
  /\ last.prevProps # props[last.inst]
  /\ \E k \in Keys : survivor(k)
  /\ eventCalls("attachEvent") = <<>>

\* C5: the 'onReanimatedPropsChange' channel has a subscribed listener if and
\* only if NODE_MAPPING is non-empty.
C5_SubscribedIffNonEmpty == (listeners > 0) <=> (size(NODE_MAPPING) > 0)

C5_Witness ==
  /\ last.op = "componentWillUnmount"
  /\ size(NODE_MAPPING) = 1
  /\ listeners > 0
  /\ \E i \in Instances : phase[i] = "unmounted"

hasCall(cs, op) == \E n \in 1..Len(cs) : cs[n].op = op

\* C6: addListener is called only by a register that takes the registry from 0
\* to 1 entries, removeAllListeners only by an unregister that takes it from 1
\* to 0 entries.
C6_SubscribeOnlyOnTransitions ==
  [][/\ hasCall(calls', "addListener") =>
          size(NODE_MAPPING) = 0 /\ size(NODE_MAPPING') = 1
     /\ hasCall(calls', "removeAllListeners") =>
          size(NODE_MAPPING) = 1 /\ size(NODE_MAPPING') = 0]_vars

\* C7: the registry holds an entry for an instance if and only if the instance
\* has mounted and has not unmounted.
C7_EntryIffMounted ==
  \A i \in Instances : (\E t \in TagKeys : NODE_MAPPING[t] = i) <=> phase[i] = "mounted"

\* C8: a notification whose viewTag has an entry is forwarded with its props to
\* _updateFromNative of the instance registered under it and to no other; one
\* whose viewTag has no entry makes no call, raises nothing and leaves the
\* registry and the subscription as they were.
C8_NotificationRouted ==
  [][last'.op = "listener" =>
       LET inst == NODE_MAPPING[last'.viewTag]
       IN IF inst # ""
          THEN /\ Len(calls') >= 1
               /\ calls'[1] = Call("_updateFromNative", inst, "", last'.nativeProps, 0)
               /\ \A n \in 1..Len(calls') :
                    /\ calls'[n].inst = inst
                    /\ calls'[n].id = last'.nativeProps
                    /\ n > 1 => calls'[n].op = "setNativeProps"
          ELSE /\ calls' = <<>>
               /\ threw' = ""
               /\ UNCHANGED <<NODE_MAPPING, listeners, component, propsAnimated>>]_vars

C8_Witness ==
  /\ last.op = "listener"
  /\ NODE_MAPPING[last.viewTag] = ""
  /\ \E i \in Instances : phase[i] = "unmounted"
  /\ calls = <<>>

detachCalls(cs) == SelectSeq(cs, LAMBDA c : c.op = "__detach")

\* C9: on construction and on every update, a reused props node is kept and not
\* detached; a new node is installed before the old one is detached, and the
\* old one is detached exactly once in that operation.
C9_InstallBeforeDetach ==
  [][\A i \in Instances :
       (last'.op \in {"constructor", "componentDidUpdate"} /\ last'.inst = i) =>
         LET old == propsAnimated[i]
             new == propsAnimated'[i]
         IN IF new = old
            THEN /\ detachCalls(calls') = <<>>
                 /\ nodeDetached' = nodeDetached
            ELSE /\ calls'[1] = Call("createOrReusePropsNode", i, "", "", new)
                 /\ nodeDetached'[new] = 0
                 /\ IF old = 0
                    THEN detachCalls(calls') = <<>>
                    ELSE /\ detachCalls(calls') = <<Call("__detach", i, "", "", old)>>
                         /\ nodeDetached' = [nodeDetached EXCEPT ![old] = @ + 1]]_vars

C9_Witness ==
  /\ last.op = "componentDidUpdate"
  /\ budget = 0
  /\ propsAnimated[last.inst] = 2
  /\ nodeDetached[1] = 1
  /\ detachCalls(calls) = <<>>

\* C10: running componentWillUnmount again on an unmounted instance changes
\* nothing: no second __detach of the props node, no repeated native event
\* detach, no error.
C10_TeardownIdempotent ==
  [][\A i \in Instances :
       (phase[i] = "unmounted" /\ last'.op = "componentWillUnmount" /\ last'.inst = i) =>
         /\ nodeDetached' = nodeDetached
         /\ attachedEvents' = attachedEvents
         /\ handler' = handler
         /\ NODE_MAPPING' = NODE_MAPPING
         /\ ~hasCall(calls', "__detach")
         /\ ~hasCall(calls', "detachEvent")
         /\ ~hasCall(calls', "unregisterFromEvents")
         /\ threw' = ""]_vars

\* the imperative updates and forced re-renders _animatedPropsCallback makes
callbackCalls(cs) ==
  SelectSeq(cs, LAMBDA c : \/ c.op = "forceUpdate"
                           \/ c.op = "setNativeProps" /\ c.id = "__getValue")

\* C11: a firing of the animated-props callback while this._component is not
\* set makes no imperative update and forces no render, it sets the deferral
\* flag; componentDidMount replays the callback exactly once when one or more
\* firings were deferred and not at all when none was, and clears the flag.
C11_DeferredReplayedOnce ==
  [][\A i \in Instances :
       /\ (last'.op = "_animatedPropsCallback" /\ last'.inst = i /\ component[i] = "null") =>
            /\ calls' = <<>>
            /\ invokeOnMount'[i]
       /\ (last'.op = "componentDidMount" /\ last'.inst = i) =>
            /\ Len(callbackCalls(calls')) = (IF deferred[i] > 0 THEN 1 ELSE 0)
            /\ ~invokeOnMount'[i]]_vars

C11_Witness ==
  /\ last.op = "componentDidMount"
  /\ last.replayed = MaxDeferred
  /\ Len(callbackCalls(calls)) = 1
  /\ ~invokeOnMount[last.inst]

\* the last operation ran the descriptor publisher
afterPublish == last.op \in {"componentDidMount", "componentDidUpdate"}

\* C12: when componentDidMount or componentDidUpdate resolves no native view
\* handle (the wrapped component renders nothing), _attachAnimatedStyles raises
\* an error and no descriptor set changes.
C12_NoHandleRaises ==
  [][(last'.op \in {"componentDidMount", "componentDidUpdate"} /\ last'.viewTag = "null") =>
       /\ threw' # ""
       /\ ~hasCall(calls', "viewDescriptors.add")
       /\ viewDescriptors' = viewDescriptors]_vars

\* the style nodes found in a style value at any nesting depth
RECURSIVE styleNodesOf(_)
styleNodesOf(st) ==
  IF st.kind = "animated" THEN {st.node}
  ELSE IF st.kind = "array"
       THEN UNION {styleNodesOf(st.items[n]) : n \in 1..Len(st.items)}
       ELSE {}

\* the descriptor of the native handle the last operation resolved
resolvedDescriptor == [tag |-> last.viewTag, name |-> viewNameOf(PlatformOS)]

\* C13: after componentDidMount and after componentDidUpdate that resolved a
\* native handle, every style node of this.props.style, at any nesting depth,
\* and the animatedProps object hold the (tag, name) of that handle in their
\* descriptor set; after the mount each of these sets holds that entry only.
C13_DescriptorsPublished ==
  (afterPublish /\ last.viewTag # "null") =>
    LET i == last.inst
        owners == styleNodesOf(style[i])
                    \cup (IF animatedProps[i] # "undefined" THEN {i} ELSE {})
    IN \A o \in owners :
         /\ resolvedDescriptor \in viewDescriptors[o]
         /\ last.op = "componentDidMount" => viewDescriptors[o] = {resolvedDescriptor}

C13_Witness ==
  /\ last.op = "componentDidMount"
  /\ last.viewTag = "t2"
  /\ styleNodesOf(style[last.inst]) = {"S1", "S2"}
  /\ animatedProps[last.inst] # "undefined"
  /\ \A o \in {"S1", "S2", last.inst} :
       viewDescriptors[o] = {[tag |-> "t2", name |-> ViewName]}

\* two consecutive steps are renders of the same instance with the same inputs
sameRenderTwice ==
  /\ last.op = "render" /\ last'.op = "render"
  /\ last'.inst = last.inst
  /\ rendered'.listeners = rendered.listeners

\* C14: rendering the same props twice gives equal projected props, and a
\* render changes neither this.props nor an object reachable from them: the
\* style entries (their viewRef and descriptor set), the animatedProps, the
\* handler.
C14_ProjectionPure ==
  [][/\ sameRenderTwice => rendered'.props = rendered.props
     /\ last'.op = "render" =>
          UNCHANGED <<props, style, animatedProps, viewRef, viewDescriptors, handler>>]_vars

\* a value holds an animation-graph node, at any depth
RECURSIVE holdsNode(_)
holdsNode(v) ==
  \/ v.kind \in {"AnimatedValue", "AnimatedNode"}
  \/ /\ v.kind = "array"
     /\ \E n \in 1..Len(v.items) : holdsNode(v.items[n])

\* the values of the props render gave: its props and the keys of its style
renderedValues ==
  {rendered.props[k] : k \in OutKeys \ {"style"}}
    \cup (IF rendered.props["style"].kind = "plain"
          THEN {rendered.props["style"].fields[k] : k \in StyleKeys}
          ELSE {})

\* C15: the props render gives the wrapped component hold no animation-graph
\* node, neither as a value nor inside an array or object value; a value of
\* this.props that holds no node is passed unchanged and an AnimatedValue is
\* replaced by its _startingValue.
C15_NoNodeInProjection ==
  last.op = "render" =>
    /\ \A v \in renderedValues : ~holdsNode(v)
    /\ \A k \in Keys :
         LET value == props[last.inst][k]
         IN /\ (value.kind \in {"plain", "array"} /\ ~holdsNode(value)) =>
                 rendered.props[k] = value
            /\ value.kind = "AnimatedValue" => rendered.props[k] = Scalar(value.id)

\* a function that is no class component: no prototype.isReactComponent
statelessFunction(c) == c \in {"function", "arrow"}

\* C16: createAnimatedComponent of a function that is no class component
\* raises an error and returns no wrapper, so that no instance is constructed
\* or rendered; of a class component or of a component that is no function it
\* returns a wrapper and raises nothing.
C16_RejectedAtWrapTime ==
  /\ [][last'.op = "createAnimatedComponent" =>
          IF statelessFunction(Component')
          THEN threw' # "" /\ ~wrapper'
          ELSE threw' = "" /\ wrapper']_vars
  /\ [](~wrapper => /\ \A i \in Instances : phase[i] = "none"
                    /\ renders = 0)

C16_Witness ==
  /\ last.op = "createAnimatedComponent"
  /\ Component = "arrow"
  /\ threw # ""
  /\ ~wrapper

\* the props graph nodes createOrReusePropsNode has built, and those of them
\* that have not been detached
installedNodes == 1..(nextNode - 1)
liveNodes == {n \in installedNodes : nodeDetached[n] = 0}

\* C17: from its construction until its unmount an instance holds one props
\* graph node that is attached and not detached, its current one, and no
\* other node is live; every node that was replaced or released by a
\* completed unmount has been detached exactly once.
C17_OneLiveNode ==
  LET holders == {i \in Instances : phase[i] \in {"constructed", "mounted"}}
  IN /\ \A i \in holders : propsAnimated[i] \in liveNodes
     /\ \A i \in holders, j \in holders : i # j => propsAnimated[i] # propsAnimated[j]
     /\ liveNodes = {propsAnimated[i] : i \in holders}
     /\ \A n \in installedNodes \ liveNodes : nodeDetached[n] = 1

C17_Witness ==
  /\ phase["a"] = "unmounted"
  /\ installedNodes = 1..MaxNodes
  /\ \A n \in installedNodes : nodeDetached[n] = 1

\* the positions in the calls of the last operation of the calls of one
\* operation made for a key
callsAt(op, k) == {n \in 1..Len(calls) : calls[n].op = op /\ calls[n].key = k}

\* C18: in an update, a handler ref of this.props whose handler has
\* reattachNeeded set is unregistered, when its key is a key of prevProps,
\* before it is registered, is registered exactly once, on the view handle
\* resolved for the instance, and reattachNeeded is clear afterwards; a handler
\* ref whose handler has it clear is neither unregistered nor registered.
C18_FlaggedHandlerReattached ==
  afterUpdate =>
    \A k \in Keys :
      isHandler(props[last.inst][k]) =>
        LET unregs == callsAt("unregisterFromEvents", k)
            regs == callsAt("registerForEvents", k)
        IN IF last.flagged
           THEN /\ Cardinality(regs) = 1
                /\ \A n \in regs : calls[n].id = last.viewTag
                /\ (unregs # {}) <=> (last.prevProps[k] # Absent)
                /\ \A m \in unregs, n \in regs : m < n
                /\ ~handler[last.inst].reattachNeeded
           ELSE unregs = {} /\ regs = {}

\* C19: a firing of the animated-props callback, when this._component is set
\* and has setNativeProps, makes one setNativeProps call with the value of the
\* instance's props graph node and forces no render; when it is set and has
\* none, it forces one render; when it is not set, it makes neither call.
C19_CallbackUpdatesOrRerenders ==
  [][\A i \in Instances :
       (last'.op = "_animatedPropsCallback" /\ last'.inst = i) =>
         calls' = (IF component[i] = "null" THEN <<>>
                   ELSE IF component[i] = "native"
                   THEN <<Call("setNativeProps", i, "", "__getValue", propsAnimated[i])>>
                   ELSE <<Call("forceUpdate", i, "", "", 0)>>)]_vars

C19_Witness ==
  /\ last.op = "_animatedPropsCallback"
  /\ component[last.inst] = "native"
  /\ propsAnimated[last.inst] = 2
  /\ calls = <<Call("setNativeProps", last.inst, "", "__getValue", 2)>>

\* C20: no operation of the wrapper removes an entry from the descriptor set
\* of a style node or of an animatedProps object: the descriptor an instance
\* inserted is still there after the instance unmounts and after an update
\* whose style no longer holds the style node.
C20_DescriptorsNeverRemoved ==
  [][\A o \in DescriptorOwners : viewDescriptors[o] \subseteq viewDescriptors'[o]]_vars

C20_Witness ==
  /\ phase["a"] = "unmounted"
  /\ budget = 0
  /\ "S2" \notin styleNodesOf(style["a"])
  /\ viewDescriptors["S2"] # {}
  /\ animatedProps["a"] = "undefined"
  /\ viewDescriptors["a"] # {}
====
